---- MODULE Spec2Model ----
(***************************************************************************)
(* TaskFlow backend: the subdepartment hierarchy (routers/subdepartments,  *)
(* routers/departments) and the task-assignment lifecycle                  *)
(* (routers/task_assignments, routers/tasks) as state machines over the    *)
(* database rows the handlers read and write.                              *)
(***************************************************************************)
EXTENDS Integers, Sequences, FiniteSets, TLC

\* ---------------------------------------------------------------------
\* Bounds of the model
\* ---------------------------------------------------------------------
\* subdepartment ids handed out in the hierarchy-only specification
MaxSub == 3
\* subdepartment ids handed out when members and tasks are modelled too
MaxSubD == 2
\* rows handed out in table task_assignments
MaxAssign == 1
\* the last instant of the wall clock
MaxTime == 2
\* the largest version a row is driven to
MaxVersion == 3

\* None / NULL of an optional integer column or parameter
None == 0
\* a PATCH body that does not carry the field at all (exclude_unset)
Unset == -1

Departments == {1, 2}
UserIds == {1}
TaskIds == {1, 2}
SubIds == 1..MaxSub

\* the clients whose requests may overlap
Clients == {1, 2}
\* a client with no request between its read and its write
Idle == [op |-> "idle"]

\* the acting principal supplied by get_current_user
Principals ==
  { [role |-> "admin", department_id |-> 1],
    [role |-> "manager", department_id |-> 2] }

\* the principals of the handlers that test the caller's role
Callers == Principals \cup {[role |-> "personnel", department_id |-> 2]}

VARIABLES
  subdepartments,   \* id -> [department_id, parent_id]   (table subdepartments)
  nextSubId,        \* next autoincrement id of table subdepartments
  users,            \* user id -> [subdepartment_id]      (table users)
  tasks,            \* task id -> [subdepartment_id, version] (table tasks)
  task_assignments, \* id -> row of table task_assignments
  nextAssignId,     \* next autoincrement id of table task_assignments
  now,              \* the wall clock read by datetime.now() / utcnow()
  inflight,         \* client -> the row a handler has read and not yet written
  succeeded,        \* assignment id -> status/progress updates answered 200
  task_dependencies, \* id -> [task_id, depends_on, dependency_type]
  nextDepId,        \* next autoincrement id of table task_dependencies
  participations,   \* id -> [subdepartment_id, user_id, role]
  nextPartId,       \* next autoincrement id of table subdepartmentparticipations
  response          \* the handler that answered last and its HTTP status code

\* the tables of the hierarchy and the rows hanging off its nodes
hvars == <<subdepartments, nextSubId, users, tasks>>
\* the assignment rows, the clock and the requests in flight
avars == <<task_assignments, nextAssignId, now, inflight, succeeded>>
\* the dependency edges and the membership rows
dvars == <<task_dependencies, nextDepId, participations, nextPartId>>
vars == <<subdepartments, nextSubId, users, tasks, task_assignments,
          nextAssignId, now, inflight, succeeded, task_dependencies,
          nextDepId, participations, nextPartId, response>>

Resp(op, code) == [op |-> op, code |-> code]

\* ---------------------------------------------------------------------
\* Helpers of routers/subdepartments.py
\* ---------------------------------------------------------------------
\* Python's recursion limit, scaled to the model: a walk over an acyclic
\* parent_id relation of at most MaxSub rows never nests deeper than MaxSub
RecursionLimit == MaxSub + 1

\* db.query(SubDepartment).filter(parent_id == subdept_id).all(), by id
RECURSIVE SortedSeq(_)
SortedSeq(S) ==
  IF S = {} THEN <<>>
  ELSE LET m == CHOOSE x \in S : \A y \in S : x <= y
       IN <<m>> \o SortedSeq(S \ {m})

ChildrenOf(subs, subdept_id) ==
  SortedSeq({c \in DOMAIN subs : subs[c].parent_id = subdept_id})

\* get_all_descendant_ids without the recursive extend
get_all_descendant_ids_shallow(subs, subdept_id, depth) ==
  ChildrenOf(subs, subdept_id)

RECURSIVE get_all_descendant_ids(_, _, _)
RECURSIVE DescendLoop(_, _, _)
\* the list `descendants`; depth counts the stack frames still available
get_all_descendant_ids(subs, subdept_id, depth) ==
  IF depth = 0 THEN <<>>
  ELSE DescendLoop(subs, ChildrenOf(subs, subdept_id), depth)

\* for child in children: append child.id, extend with its descendants
DescendLoop(subs, children, depth) ==
  IF children = <<>> THEN <<>>
  ELSE <<Head(children)>>
         \o get_all_descendant_ids(subs, Head(children), depth - 1)
         \o DescendLoop(subs, Tail(children), depth)

\* the recursion of get_all_descendant_ids runs out of stack frames
\* (RecursionError, surfaced as a 500): only on a cyclic parent_id relation
RECURSIVE RecursionOverflow(_, _, _)
RecursionOverflow(subs, subdept_id, depth) ==
  IF depth = 0 THEN TRUE
  ELSE \E c \in DOMAIN subs :
         subs[c].parent_id = subdept_id /\ RecursionOverflow(subs, c, depth - 1)

SeqRange(s) == {s[i] : i \in 1..Len(s)}

\* is_descendant looking at the direct children only
is_descendant_direct(subs, parent_id, child_id) ==
  child_id \in SeqRange(ChildrenOf(subs, parent_id))

is_descendant(subs, parent_id, child_id) ==
  child_id \in SeqRange(get_all_descendant_ids(subs, parent_id, RecursionLimit))

\* .filter(id == x, department_id == current_user.department_id).first()
FindInDepartment(subs, id, current_user) ==
  id \in DOMAIN subs /\ subs[id].department_id = current_user.department_id

\* ---------------------------------------------------------------------
\* Handlers of routers/subdepartments.py
\* ---------------------------------------------------------------------
\* POST /api/subdepartments/
create_subdepartment(cap, current_user, parent_id) ==
  /\ UNCHANGED dvars
  /\ UNCHANGED avars
  /\ /\ nextSubId <= cap
     /\ IF parent_id # None /\ ~FindInDepartment(subdepartments, parent_id, current_user)
        THEN /\ response' = Resp("create_subdepartment", 404)
             /\ UNCHANGED hvars
        ELSE /\ subdepartments' =
                  [i \in DOMAIN subdepartments \cup {nextSubId} |->
                     IF i = nextSubId
                     THEN [department_id |-> current_user.department_id,
                           parent_id |-> parent_id]
                     ELSE subdepartments[i]]
             /\ nextSubId' = nextSubId + 1
             /\ response' = Resp("create_subdepartment", 200)
             /\ UNCHANGED <<users, tasks>>

\* PATCH /api/subdepartments/{subdept_id}
update_subdepartment(current_user, subdept_id, parent_id) ==
  /\ UNCHANGED dvars
  /\ UNCHANGED avars
  /\ LET op(code) == Resp("update_subdepartment", code)
         subdept == subdepartments[subdept_id]
     IN
     IF ~FindInDepartment(subdepartments, subdept_id, current_user)
     THEN response' = op(404) /\ UNCHANGED hvars
     ELSE IF parent_id \notin {None, Unset} /\ parent_id # subdept.parent_id
             /\ parent_id = subdept_id
     THEN response' = op(400) /\ UNCHANGED hvars
     ELSE IF parent_id \notin {None, Unset} /\ parent_id # subdept.parent_id
             /\ RecursionOverflow(subdepartments, subdept_id, RecursionLimit)
     THEN response' = op(500) /\ UNCHANGED hvars
     ELSE IF parent_id \notin {None, Unset} /\ parent_id # subdept.parent_id
             /\ is_descendant(subdepartments, subdept_id, parent_id)
     THEN response' = op(400) /\ UNCHANGED hvars
     ELSE /\ subdepartments' =
               IF parent_id = Unset THEN subdepartments
               ELSE [subdepartments EXCEPT ![subdept_id].parent_id = parent_id]
          /\ response' = op(200)
          /\ UNCHANGED <<nextSubId, users, tasks>>

\* delete_row that hands the children of the row to its parent
delete_row_reparent(rows, subdept_id) ==
  [i \in DOMAIN rows \ {subdept_id} |->
     IF rows[i].parent_id = subdept_id
     THEN [rows[i] EXCEPT !.parent_id = rows[subdept_id].parent_id]
     ELSE rows[i]]

\* db.delete(subdept): the one row goes, no other row is written
delete_row(rows, subdept_id) ==
  [i \in DOMAIN rows \ {subdept_id} |-> rows[i]]

\* DELETE /api/subdepartments/{subdept_id}?reassign_to=
delete_subdepartment(current_user, subdept_id, reassign_to) ==
  /\ UNCHANGED dvars
  /\ UNCHANGED avars
  /\ LET op(code) == Resp("delete_subdepartment", code)
         has_dependencies ==
           \/ \E u \in DOMAIN users : users[u].subdepartment_id = subdept_id
           \/ \E t \in DOMAIN tasks : tasks[t].subdepartment_id = subdept_id
     IN
     IF ~FindInDepartment(subdepartments, subdept_id, current_user)
     THEN response' = op(404) /\ UNCHANGED hvars
     ELSE IF has_dependencies /\ reassign_to = None
     THEN response' = op(400) /\ UNCHANGED hvars
     ELSE IF reassign_to # None
             /\ ~FindInDepartment(subdepartments, reassign_to, current_user)
     THEN response' = op(404) /\ UNCHANGED hvars
     ELSE /\ users' =
               [u \in DOMAIN users |->
                  IF reassign_to # None /\ users[u].subdepartment_id = subdept_id
                  THEN [users[u] EXCEPT !.subdepartment_id = reassign_to]
                  ELSE users[u]]
          /\ tasks' =
               [t \in DOMAIN tasks |->
                  IF reassign_to # None /\ tasks[t].subdepartment_id = subdept_id
                  THEN [tasks[t] EXCEPT !.subdepartment_id = reassign_to]
                  ELSE tasks[t]]
          /\ subdepartments' = delete_row(subdepartments, subdept_id)
          /\ response' = op(200)
          /\ UNCHANGED nextSubId

\* ---------------------------------------------------------------------
\* Handler of routers/departments.py
\* ---------------------------------------------------------------------
\* DELETE /departments/subdepartments/{subdepartment_id}
departments_delete_subdepartment(current_user, subdepartment_id) ==
  /\ UNCHANGED dvars
  /\ UNCHANGED avars
  /\ LET op(code) == Resp("departments_delete_subdepartment", code)
     IN
     IF subdepartment_id \notin DOMAIN subdepartments
     THEN response' = op(404) /\ UNCHANGED hvars
     ELSE IF ~(\/ current_user.role = "admin"
               \/ /\ current_user.role = "manager"
                  /\ current_user.department_id =
                       subdepartments[subdepartment_id].department_id)
     THEN response' = op(403) /\ UNCHANGED hvars
     ELSE /\ subdepartments' =
               [i \in DOMAIN subdepartments \ {subdepartment_id} |-> subdepartments[i]]
          /\ response' = op(200)
          /\ UNCHANGED <<nextSubId, users, tasks>>

\* ---------------------------------------------------------------------
\* Handlers that attach rows to a subdepartment
\* ---------------------------------------------------------------------
\* POST /tasks/ : the row is inserted as sent, id and subdepartment_id included;
\* status is the column Task.status read by routers/subdepartments.py, which
\* no handler writes: the row has it from its insertion
create_task(current_user, id, subdepartment_id, status) ==
  /\ UNCHANGED dvars
  /\ UNCHANGED avars
  /\ LET op(code) == Resp("create_task", code)
     IN
     IF current_user.role \notin {"admin", "manager"}
     THEN response' = op(403) /\ UNCHANGED hvars
     ELSE IF id \in DOMAIN tasks
     THEN response' = op(500) /\ UNCHANGED hvars
     ELSE /\ tasks' =
               [t \in DOMAIN tasks \cup {id} |->
                  IF t = id
                  THEN [subdepartment_id |-> subdepartment_id, status |-> status,
                        version |-> 1]
                  ELSE tasks[t]]
          /\ response' = op(200)
          /\ UNCHANGED <<subdepartments, nextSubId, users>>

\* PATCH /api/users/me : every field of the body is set on the caller's row
update_user_profile(user_id, subdepartment_id) ==
  /\ UNCHANGED dvars
  /\ UNCHANGED avars
  /\ /\ users' = [users EXCEPT ![user_id].subdepartment_id = subdepartment_id]
     /\ response' = Resp("update_user_profile", 200)
     /\ UNCHANGED <<subdepartments, nextSubId, tasks>>

\* ---------------------------------------------------------------------
\* The hierarchy alone: createSubdepartment, moveSubdepartment and
\* deleteSubdepartment calls starting from an empty hierarchy
\* ---------------------------------------------------------------------
EmptyFn == [x \in {} |-> None]

InitTree ==
  /\ subdepartments = EmptyFn
  /\ nextSubId = 1
  /\ users = [u \in UserIds |-> [subdepartment_id |-> None]]
  /\ tasks = EmptyFn
  /\ task_assignments = EmptyFn
  /\ nextAssignId = 1
  /\ now = 1
  /\ inflight = [c \in Clients |-> Idle]
  /\ succeeded = EmptyFn
  /\ task_dependencies = EmptyFn
  /\ nextDepId = 1
  /\ participations = EmptyFn
  /\ nextPartId = 1
  /\ response = Resp("none", 0)

TreeCreate ==
  \E u \in Principals, p \in {None} \cup SubIds :
    create_subdepartment(MaxSub, u, p)

TreeMove ==
  \E u \in Principals, id \in SubIds, p \in {None, Unset} \cup SubIds :
    update_subdepartment(u, id, p)

TreeDelete ==
  \E u \in Principals, id \in SubIds, r \in {None} \cup SubIds :
    delete_subdepartment(u, id, r)

TreeDepartmentsDelete ==
  \E u \in Principals, id \in SubIds :
    departments_delete_subdepartment(u, id)

NextTree == TreeCreate \/ TreeMove \/ TreeDelete \/ TreeDepartmentsDelete

SpecTree == InitTree /\ [][NextTree]_vars

\* ---------------------------------------------------------------------
\* Properties of the hierarchy
\* ---------------------------------------------------------------------
\* anc is met within k hops when following parent_id upwards from x
RECURSIVE IsAncestor(_, _, _, _)
IsAncestor(subs, anc, x, k) ==
  /\ k > 0
  /\ x \in DOMAIN subs
  /\ subs[x].parent_id # None
  /\ \/ subs[x].parent_id = anc
     \/ IsAncestor(subs, anc, subs[x].parent_id, k - 1)

\* following parent_id from x ends, within k hops, at a row without parent
RECURSIVE ReachesRoot(_, _, _)
ReachesRoot(subs, x, k) ==
  /\ x \in DOMAIN subs
  /\ \/ subs[x].parent_id = None
     \/ k > 0 /\ ReachesRoot(subs, subs[x].parent_id, k - 1)

Acyclic(subs) == \A x \in DOMAIN subs : ~IsAncestor(subs, x, x, MaxSub)

\* C1: on an acyclic hierarchy, a PATCH that moves a subdepartment the
\* caller can see under itself or under one of its transitive descendants
\* answers 400 and leaves every parent_id as it was.
C1_MoveIntoOwnSubtreeRejected ==
  [][(response'.op = "update_subdepartment" /\ Acyclic(subdepartments))
       => \A id \in DOMAIN subdepartments, p \in SubIds :
            (p = id \/ IsAncestor(subdepartments, id, p, MaxSub))
              => \A u \in Principals :
                   ( /\ FindInDepartment(subdepartments, id, u)
                     /\ update_subdepartment(u, id, p) )
                   => (response'.code = 400 /\ subdepartments' = subdepartments)]_vars

\* S3 under S2 under S1, and the move of S1 under S3 was just refused
C1_Witness ==
  /\ response = Resp("update_subdepartment", 400)
  /\ DOMAIN subdepartments = {1, 2, 3}
  /\ subdepartments[1].parent_id = None
  /\ subdepartments[2].parent_id = 1
  /\ subdepartments[3].parent_id = 2

\* C2: the subdepartments form a forest: no subdepartment is its own
\* ancestor and every parent_id chain ends at a subdepartment without parent.
C2_Forest ==
  /\ Acyclic(subdepartments)
  /\ \A x \in DOMAIN subdepartments : ReachesRoot(subdepartments, x, MaxSub)

\* ---------------------------------------------------------------------
\* The hierarchy with members and tasks attached to its nodes
\* ---------------------------------------------------------------------
DelCreate ==
  \E u \in Principals, p \in {None} \cup SubIds :
    create_subdepartment(MaxSubD, u, p)

DelMove ==
  \E u \in Principals, id \in SubIds, p \in {None, Unset} \cup SubIds :
    update_subdepartment(u, id, p)

DelDelete ==
  \E u \in Principals, id \in SubIds, r \in {None} \cup SubIds :
    delete_subdepartment(u, id, r)

DelDepartmentsDelete ==
  \E u \in Principals, id \in SubIds :
    departments_delete_subdepartment(u, id)

DelCreateTask ==
  \E u \in Callers, t \in TaskIds, sd \in {None} \cup SubIds :
    create_task(u, t, sd, "To Do")

DelUpdateUser ==
  \E usr \in UserIds, sd \in {None} \cup SubIds :
    update_user_profile(usr, sd)

NextDelete ==
  \/ DelCreate
  \/ DelMove
  \/ DelDelete
  \/ DelDepartmentsDelete
  \/ DelCreateTask
  \/ DelUpdateUser

SpecDelete == InitTree /\ [][NextDelete]_vars

\* the rows that name subdepartment id in their subdepartment_id column
MembersOf(id) == {u \in DOMAIN users : users[u].subdepartment_id = id}
TasksOf(id) == {t \in DOMAIN tasks : tasks[t].subdepartment_id = id}

\* the caller may delete through DELETE /departments/subdepartments/{id}
MayDelete(u, id) ==
  \/ u.role = "admin"
  \/ u.role = "manager" /\ u.department_id = subdepartments[id].department_id

\* C5: a delete without reassign_to of a subdepartment the caller may
\* delete answers 400 and changes nothing if the node has a direct member or
\* a direct task, and otherwise answers 200 and removes the node.
C5_DeleteWithoutTargetIffDependents ==
  [][response'.op \in {"delete_subdepartment", "departments_delete_subdepartment"}
       => \A id \in DOMAIN subdepartments, u \in Principals :
            ( \/ /\ FindInDepartment(subdepartments, id, u)
                 /\ delete_subdepartment(u, id, None)
              \/ /\ MayDelete(u, id)
                 /\ departments_delete_subdepartment(u, id) )
            => IF MembersOf(id) # {} \/ TasksOf(id) # {}
               THEN response'.code = 400 /\ UNCHANGED hvars
               ELSE response'.code = 200 /\ id \notin DOMAIN subdepartments']_vars

\* C6: after a successful delete with reassign_to = T no user row and no
\* task row names the deleted id, and every row that named it names T.
C6_DependentsMovedToTarget ==
  [][response'.op = "delete_subdepartment" /\ response'.code = 200
       => \A id \in DOMAIN subdepartments, T \in SubIds, u \in Principals :
            delete_subdepartment(u, id, T)
            => /\ \A x \in DOMAIN users' : users'[x].subdepartment_id # id
               /\ \A t \in DOMAIN tasks' : tasks'[t].subdepartment_id # id
               /\ \A x \in MembersOf(id) : users'[x].subdepartment_id = T
               /\ \A t \in TasksOf(id) : tasks'[t].subdepartment_id = T]_vars

\* C7: a delete with reassign_to = T succeeds only if T is an existing
\* subdepartment other than the deleted one and of the same department;
\* otherwise it answers 404 and changes nothing.
C7_TargetMustBeAnotherNode ==
  [][response'.op = "delete_subdepartment"
       => \A id \in DOMAIN subdepartments, T \in SubIds, u \in Principals :
            ( /\ FindInDepartment(subdepartments, id, u)
              /\ delete_subdepartment(u, id, T)
              /\ ~( /\ T \in DOMAIN subdepartments
                    /\ T # id
                    /\ subdepartments[T].department_id
                         = subdepartments[id].department_id ) )
            => response'.code = 404 /\ UNCHANGED hvars]_vars

\* ---------------------------------------------------------------------
\* Task assignments: routers/task_assignments.py and routers/tasks.py
\* ---------------------------------------------------------------------
\* task_status_enum
Statuses == {"To Do", "In Progress", "Under Review", "Completed"}
AssigneeIds == {1, 2}
AssignIds == 1..MaxAssign

\* the dict `progress = {...}[status_update.status]` of update_task_status
status_progress(status) ==
  CASE status = "To Do" -> 0
    [] status = "In Progress" -> 25
    [] status = "Under Review" -> 75
    [] status = "Completed" -> 100

\* task.task_assignments
AssignmentsOfTask(rows, task_id) == {a \in DOMAIN rows : rows[a].task_id = task_id}

\* datetime.now(): the clock moves on between requests
Tick ==
  /\ UNCHANGED dvars
  /\ now < MaxTime
  /\ now' = now + 1
  /\ UNCHANGED <<hvars, task_assignments, nextAssignId, inflight, succeeded, response>>

\* POST /task-assignments/ : the body is inserted as sent; the insert fails
\* on the foreign key task_id and on the enum column status
create_task_assignment(cap, current_user, assignment) ==
  /\ UNCHANGED dvars
  /\ UNCHANGED <<hvars, now, inflight>>
  /\ nextAssignId <= cap
  /\ LET op(code) == Resp("create_task_assignment", code)
         existing == {a \in DOMAIN task_assignments :
                        /\ task_assignments[a].task_id = assignment.task_id
                        /\ task_assignments[a].assigned_to = assignment.assigned_to}
     IN
     IF current_user.role \notin {"admin", "manager"}
     THEN response' = op(403) /\ UNCHANGED <<task_assignments, nextAssignId, succeeded>>
     ELSE IF existing # {}
     THEN response' = op(400) /\ UNCHANGED <<task_assignments, nextAssignId, succeeded>>
     ELSE IF assignment.task_id \notin DOMAIN tasks \/ assignment.status \notin Statuses
     THEN response' = op(500) /\ UNCHANGED <<task_assignments, nextAssignId, succeeded>>
     ELSE /\ task_assignments' =
               [a \in DOMAIN task_assignments \cup {nextAssignId} |->
                  IF a = nextAssignId THEN assignment ELSE task_assignments[a]]
          /\ succeeded' =
               [a \in DOMAIN succeeded \cup {nextAssignId} |->
                  IF a = nextAssignId THEN 0 ELSE succeeded[a]]
          /\ nextAssignId' = nextAssignId + 1
          /\ response' = op(200)

\* status_write that never leaves Completed
status_write_forward(stored, current, status, t) ==
  [stored EXCEPT
     !.status = IF current.status = "Completed" THEN @ ELSE status,
     !.version = current.version + 1,
     !.started_at =
        IF status = "In Progress" /\ current.started_at = None THEN t ELSE @,
     !.completed_at =
        IF status = "In Progress" /\ current.started_at = None THEN @
        ELSE IF status = "Completed" /\ current.completed_at = None THEN t ELSE @]

\* the row update_assignment_status writes: the keys of `updates`, computed
\* from the row `current` read before, over the row stored at write time
status_write(stored, current, status, t) ==
  [stored EXCEPT
     !.status = status,
     !.version = current.version + 1,
     !.started_at =
        IF status = "In Progress" /\ current.started_at = None THEN t ELSE @,
     !.completed_at =
        IF status = "In Progress" /\ current.started_at = None THEN @
        ELSE IF status = "Completed" /\ current.completed_at = None THEN t ELSE @]

\* PUT /task-assignments/{assignment_id}/status, read and write in one step
update_assignment_status(assignment_id, status) ==
  /\ UNCHANGED dvars
  /\ UNCHANGED <<hvars, nextAssignId, now, inflight>>
  /\ LET op(code) == Resp("update_assignment_status", code)
     IN
     IF status \notin Statuses
     THEN response' = op(400) /\ UNCHANGED <<task_assignments, succeeded>>
     ELSE IF assignment_id \notin DOMAIN task_assignments
     THEN response' = op(404) /\ UNCHANGED <<task_assignments, succeeded>>
     ELSE /\ task_assignments[assignment_id].version < MaxVersion
          /\ task_assignments' =
               [task_assignments EXCEPT ![assignment_id] =
                  status_write(@, task_assignments[assignment_id], status, now)]
          /\ succeeded' = [succeeded EXCEPT ![assignment_id] = @ + 1]
          /\ response' = op(200)

\* progress_write that also completes the row at 100
progress_write_forcing(stored, current, progress) ==
  [stored EXCEPT !.progress = progress,
                 !.status = IF progress = 100 THEN "Completed" ELSE @,
                 !.version = current.version + 1]

\* the row update_assignment_progress writes over the row stored at write time
progress_write(stored, current, progress) ==
  [stored EXCEPT !.progress = progress, !.version = current.version + 1]

\* PUT /task-assignments/{assignment_id}/progress, read and write in one step
update_assignment_progress(assignment_id, progress) ==
  /\ UNCHANGED dvars
  /\ UNCHANGED <<hvars, nextAssignId, now, inflight>>
  /\ LET op(code) == Resp("update_assignment_progress", code)
     IN
     IF ~(0 <= progress /\ progress <= 100)
     THEN response' = op(400) /\ UNCHANGED <<task_assignments, succeeded>>
     ELSE IF assignment_id \notin DOMAIN task_assignments
     THEN response' = op(404) /\ UNCHANGED <<task_assignments, succeeded>>
     ELSE /\ task_assignments[assignment_id].version < MaxVersion
          /\ task_assignments' =
               [task_assignments EXCEPT ![assignment_id] =
                  progress_write(@, task_assignments[assignment_id], progress)]
          /\ succeeded' = [succeeded EXCEPT ![assignment_id] = @ + 1]
          /\ response' = op(200)

\* PUT /task-assignments/{assignment_id} : every field of the body is
\* written, the version sent by the caller is replaced by stored + 1
update_task_assignment(assignment_id, assignment) ==
  /\ UNCHANGED dvars
  /\ UNCHANGED <<hvars, nextAssignId, now, inflight, succeeded>>
  /\ LET op(code) == Resp("update_task_assignment", code)
     IN
     IF assignment_id \notin DOMAIN task_assignments
     THEN response' = op(404) /\ UNCHANGED task_assignments
     ELSE IF assignment.task_id \notin DOMAIN tasks \/ assignment.status \notin Statuses
     THEN response' = op(500) /\ UNCHANGED task_assignments
     ELSE /\ task_assignments[assignment_id].version < MaxVersion
          /\ task_assignments' =
               [task_assignments EXCEPT ![assignment_id] =
                  [assignment EXCEPT
                     !.version = task_assignments[assignment_id].version + 1]]
          /\ response' = op(200)

\* what update_task_status sets on one assignment of the task
task_status_write(assignment, status, t) ==
  [assignment EXCEPT
     !.status = status,
     !.progress = status_progress(status),
     !.started_at =
        IF status = "In Progress" /\ assignment.started_at = None THEN t ELSE @,
     !.completed_at =
        IF status = "In Progress" /\ assignment.started_at = None THEN @
        ELSE IF status = "Completed" THEN t ELSE @]

\* PATCH /tasks/{task_id}/status
update_task_status(task_id, status) ==
  /\ UNCHANGED dvars
  /\ UNCHANGED <<subdepartments, nextSubId, users, nextAssignId, now, inflight, succeeded>>
  /\ LET op(code) == Resp("update_task_status", code)
     IN
     IF task_id \notin DOMAIN tasks
     THEN response' = op(404) /\ UNCHANGED <<tasks, task_assignments>>
     ELSE /\ status = "Completed" => tasks[task_id].version < MaxVersion
          /\ task_assignments' =
               [a \in DOMAIN task_assignments |->
                  IF task_assignments[a].task_id = task_id
                  THEN task_status_write(task_assignments[a], status, now)
                  ELSE task_assignments[a]]
          /\ tasks' =
               IF status = "Completed"
               THEN [tasks EXCEPT ![task_id].version = @ + 1]
               ELSE tasks
          /\ response' = op(200)

\* the answer of a bulk handler: the list `tasks` it returns holds the listed
\* tasks it found; skipped is the number of listed ids missing from it
BulkResp(op, task_ids) ==
  [op |-> op, code |-> 200,
   skipped |-> Cardinality({i \in DOMAIN task_ids : task_ids[i] \notin DOMAIN tasks})]

\* what bulk_update_status sets on one assignment of a listed task
bulk_status_write(assignment, status, t) ==
  [assignment EXCEPT
     !.status = status,
     !.started_at =
        IF status = "In Progress" /\ assignment.started_at = None THEN t ELSE @,
     !.completed_at =
        IF status = "In Progress" /\ assignment.started_at = None THEN @
        ELSE IF status = "Completed" THEN t ELSE @]

RECURSIVE bulk_status_loop_stop(_, _, _, _)
bulk_status_loop_stop(rows, task_ids, status, t) ==
  IF task_ids = <<>> THEN rows
  ELSE IF Head(task_ids) \notin DOMAIN tasks THEN rows
  ELSE bulk_status_loop_stop(
         [a \in DOMAIN rows |->
            IF rows[a].task_id = Head(task_ids)
            THEN bulk_status_write(rows[a], status, t)
            ELSE rows[a]],
         Tail(task_ids), status, t)

\* for task_id in update.task_ids: a missing task is passed over
RECURSIVE bulk_status_loop(_, _, _, _)
bulk_status_loop(rows, task_ids, status, t) ==
  IF task_ids = <<>> THEN rows
  ELSE bulk_status_loop(
         IF Head(task_ids) \in DOMAIN tasks
         THEN [a \in DOMAIN rows |->
                 IF rows[a].task_id = Head(task_ids)
                 THEN bulk_status_write(rows[a], status, t)
                 ELSE rows[a]]
         ELSE rows,
         Tail(task_ids), status, t)

\* PATCH /tasks/bulk/status
bulk_update_status(task_ids, status) ==
  /\ UNCHANGED dvars
  /\ UNCHANGED <<hvars, nextAssignId, now, inflight, succeeded>>
  /\ task_assignments' = bulk_status_loop(task_assignments, task_ids, status, now)
  /\ response' = BulkResp("bulk_update_status", task_ids)

\* PUT /tasks/{task_id} : every field of the body is written, the version
\* sent by the caller is replaced by stored + 1
update_task(current_user, task_id, task) ==
  /\ UNCHANGED dvars
  /\ UNCHANGED <<subdepartments, nextSubId, users, avars>>
  /\ LET op(code) == Resp("update_task", code)
     IN
     IF current_user.role \notin {"admin", "manager"}
     THEN response' = op(403) /\ UNCHANGED tasks
     ELSE IF task_id \notin DOMAIN tasks
     THEN response' = op(404) /\ UNCHANGED tasks
     ELSE /\ tasks[task_id].version < MaxVersion
          /\ tasks' = [tasks EXCEPT ![task_id] =
                         [task EXCEPT !.version = tasks[task_id].version + 1]]
          /\ response' = op(200)

\* ---------------------------------------------------------------------
\* The assignment lifecycle, one request at a time
\* ---------------------------------------------------------------------
\* a body of POST or PUT /task-assignments
Assignment(task_id, assigned_to, status, progress, version) ==
  [task_id |-> task_id, assigned_to |-> assigned_to, status |-> status,
   progress |-> progress, started_at |-> None, completed_at |-> None,
   version |-> version]

\* a task id no row of table tasks has
MissingTask == 9

AsgCreateTask ==
  \E u \in Callers : create_task(u, 1, None, "To Do")

AsgCreate ==
  \E u \in Callers, t \in {1, MissingTask}, who \in AssigneeIds :
    create_task_assignment(MaxAssign, u, Assignment(t, who, "To Do", 0, 1))

AsgStatus ==
  \E id \in AssignIds, st \in Statuses \cup {"Bogus"} :
    update_assignment_status(id, st)

\* the progress values sent to PUT .../progress
ProgressInputs == {-1, 0, 100, 101}

AsgProgress ==
  \E id \in AssignIds, p \in ProgressInputs :
    update_assignment_progress(id, p)

\* the bodies sent to PUT /task-assignments/{id}
PutBodies ==
  {Assignment(t, who, st, 0, v) :
     t \in {1, MissingTask}, who \in AssigneeIds, st \in Statuses,
     v \in 1..MaxVersion}

AsgPut ==
  \E id \in AssignIds, body \in PutBodies : update_task_assignment(id, body)

AsgTaskStatus ==
  \E t \in {1, MissingTask}, st \in Statuses : update_task_status(t, st)

AsgBulkStatus ==
  \E ids \in {<<1>>, <<MissingTask>>, <<1, MissingTask>>, <<MissingTask, 1>>},
     st \in Statuses :
    bulk_update_status(ids, st)

AsgUpdateTask ==
  \E u \in Callers, t \in {1, MissingTask}, v \in 1..MaxVersion :
    update_task(u, t, [subdepartment_id |-> None, status |-> "To Do", version |-> v])

NextAssign ==
  \/ AsgCreateTask
  \/ AsgCreate
  \/ AsgStatus
  \/ AsgProgress
  \/ AsgPut
  \/ AsgTaskStatus
  \/ AsgBulkStatus
  \/ AsgUpdateTask
  \/ Tick

SpecAssign == InitTree /\ [][NextAssign]_vars

\* ---------------------------------------------------------------------
\* The assignment lifecycle with overlapping requests: the handlers of
\* PUT .../status and PUT .../progress are a read and a later write
\* ---------------------------------------------------------------------
\* update_assignment_status up to the read of the current row
status_begin(c, assignment_id, status) ==
  /\ UNCHANGED dvars
  /\ inflight[c] = Idle
  /\ UNCHANGED <<hvars, task_assignments, nextAssignId, now, succeeded>>
  /\ IF status \notin Statuses
     THEN response' = Resp("update_assignment_status", 400) /\ UNCHANGED inflight
     ELSE IF assignment_id \notin DOMAIN task_assignments
     THEN response' = Resp("update_assignment_status", 404) /\ UNCHANGED inflight
     ELSE /\ task_assignments[assignment_id].version < MaxVersion
          /\ inflight' = [inflight EXCEPT ![c] =
                            [op |-> "status", id |-> assignment_id,
                             value |-> status,
                             current |-> task_assignments[assignment_id]]]
          /\ UNCHANGED response

\* update_assignment_status from the building of `updates` to the write
status_commit(c) ==
  /\ UNCHANGED dvars
  /\ inflight[c].op = "status"
  /\ UNCHANGED <<hvars, nextAssignId, now>>
  /\ LET r == inflight[c]
     IN /\ task_assignments' =
             IF r.id \in DOMAIN task_assignments
             THEN [task_assignments EXCEPT ![r.id] =
                     status_write(@, r.current, r.value, now)]
             ELSE task_assignments
        /\ succeeded' =
             IF r.id \in DOMAIN succeeded
             THEN [succeeded EXCEPT ![r.id] = @ + 1]
             ELSE succeeded
  /\ inflight' = [inflight EXCEPT ![c] = Idle]
  /\ response' = Resp("update_assignment_status", 200)

\* update_assignment_progress up to the read of the current version
progress_begin(c, assignment_id, progress) ==
  /\ UNCHANGED dvars
  /\ inflight[c] = Idle
  /\ UNCHANGED <<hvars, task_assignments, nextAssignId, now, succeeded>>
  /\ IF ~(0 <= progress /\ progress <= 100)
     THEN response' = Resp("update_assignment_progress", 400) /\ UNCHANGED inflight
     ELSE IF assignment_id \notin DOMAIN task_assignments
     THEN response' = Resp("update_assignment_progress", 404) /\ UNCHANGED inflight
     ELSE /\ task_assignments[assignment_id].version < MaxVersion
          /\ inflight' = [inflight EXCEPT ![c] =
                            [op |-> "progress", id |-> assignment_id,
                             value |-> progress,
                             current |-> task_assignments[assignment_id]]]
          /\ UNCHANGED response

\* update_assignment_progress: the write
progress_commit(c) ==
  /\ UNCHANGED dvars
  /\ inflight[c].op = "progress"
  /\ UNCHANGED <<hvars, nextAssignId, now>>
  /\ LET r == inflight[c]
     IN /\ task_assignments' =
             IF r.id \in DOMAIN task_assignments
             THEN [task_assignments EXCEPT ![r.id] =
                     progress_write(@, r.current, r.value)]
             ELSE task_assignments
        /\ succeeded' =
             IF r.id \in DOMAIN succeeded
             THEN [succeeded EXCEPT ![r.id] = @ + 1]
             ELSE succeeded
  /\ inflight' = [inflight EXCEPT ![c] = Idle]
  /\ response' = Resp("update_assignment_progress", 200)

ConcCreateTask ==
  \E u \in Callers : create_task(u, 1, None, "To Do")

ConcCreate ==
  \E u \in Callers, t \in {1, MissingTask}, who \in AssigneeIds :
    create_task_assignment(MaxAssign, u, Assignment(t, who, "To Do", 0, 1))

ConcStatusBegin ==
  \E c \in Clients, id \in AssignIds, st \in Statuses \cup {"Bogus"} :
    status_begin(c, id, st)

ConcStatusCommit == \E c \in Clients : status_commit(c)

ConcProgressBegin ==
  \E c \in Clients, id \in AssignIds, p \in {-1, 0, 100, 101} :
    progress_begin(c, id, p)

ConcProgressCommit == \E c \in Clients : progress_commit(c)

NextConc ==
  \/ ConcCreateTask
  \/ ConcCreate
  \/ ConcStatusBegin
  \/ ConcStatusCommit
  \/ ConcProgressBegin
  \/ ConcProgressCommit
  \/ Tick

SpecConc == InitTree /\ [][NextConc]_vars

\* ---------------------------------------------------------------------
\* Properties of the assignment lifecycle
\* ---------------------------------------------------------------------
\* C3: however status (and progress) updates of one assignment overlap,
\* the stored version is the initial version 1 plus the number of updates
\* answered 200: of two updates that read the same version only one is
\* reported as successful.
C3_VersionCountsSuccesses ==
  \A a \in DOMAIN task_assignments :
    task_assignments[a].version = 1 + succeeded[a]

\* C4: a full update of an assignment or of a task that presents a version
\* other than the stored one answers 409 and leaves the row as it was.
C4_StaleVersionRejected ==
  [][response'.op \in {"update_task_assignment", "update_task"}
       => /\ \A id \in DOMAIN task_assignments, body \in PutBodies :
               ( /\ body.task_id \in DOMAIN tasks
                 /\ body.version # task_assignments[id].version
                 /\ update_task_assignment(id, body) )
               => response'.code = 409 /\ UNCHANGED task_assignments
          /\ \A t \in DOMAIN tasks, u \in Principals, v \in 1..MaxVersion :
               ( /\ v # tasks[t].version
                 /\ update_task(u, t, [subdepartment_id |-> None, status |-> "To Do", version |-> v]) )
               => response'.code = 409 /\ UNCHANGED tasks]_vars

\* the handlers that set the status of assignments
StatusOps == {"update_assignment_status", "update_task_status", "bulk_update_status"}

\* C8: a status update writes started_at only when it sets In Progress on
\* a row whose started_at is unset, and completed_at only when it sets
\* Completed on a row whose completed_at is unset; a timestamp that is set
\* is never changed by a status update.
C8_TimestampsSetOnce ==
  [][response'.op \in StatusOps
       => \A a \in DOMAIN task_assignments \cap DOMAIN task_assignments' :
            LET old == task_assignments[a]
                new == task_assignments'[a]
            IN /\ new.started_at # old.started_at
                    => old.started_at = None /\ new.status = "In Progress"
               /\ new.completed_at # old.completed_at
                    => old.completed_at = None /\ new.status = "Completed"]_vars

\* C9: every status update of an assignment that is answered 200 raises
\* the version of the assignment by exactly 1.
C9_StatusUpdateBumpsVersion ==
  [][response'.op \in {"update_assignment_status", "update_task_status"}
       /\ response'.code = 200
       => /\ \A id \in DOMAIN task_assignments, st \in Statuses :
               update_assignment_status(id, st)
               => task_assignments'[id].version = task_assignments[id].version + 1
          /\ \A t \in DOMAIN tasks, st \in Statuses :
               update_task_status(t, st)
               => \A a \in AssignmentsOfTask(task_assignments, t) :
                    task_assignments'[a].version = task_assignments[a].version + 1]_vars

\* the progress the workflow derives from a status
DerivedProgress ==
  [st \in Statuses |->
     IF st = "To Do" THEN 0
     ELSE IF st = "In Progress" THEN 25
     ELSE IF st = "Under Review" THEN 75
     ELSE 100]

\* C10: a status update answered 200 leaves every assignment it touches
\* with the progress derived from the new status.
C10_ProgressFollowsStatus ==
  [][response'.op \in {"update_assignment_status", "update_task_status"}
       /\ response'.code = 200
       => /\ \A id \in DOMAIN task_assignments, st \in Statuses :
               update_assignment_status(id, st)
               => task_assignments'[id].progress = DerivedProgress[st]
          /\ \A t \in DOMAIN tasks, st \in Statuses :
               update_task_status(t, st)
               => \A a \in AssignmentsOfTask(task_assignments, t) :
                    task_assignments'[a].progress = DerivedProgress[st]]_vars

\* ---------------------------------------------------------------------
\* Assignment rows of several tasks: create, full update, assignee list,
\* bulk reassignment, bulk status, delete
\* ---------------------------------------------------------------------
MaxBulkIds == 3

\* models.TaskAssignment(task_id=..., assigned_to=..., status='To Do',
\* progress=0): the other columns take their defaults
NewAssignment(task_id, assigned_to) == Assignment(task_id, assigned_to, "To Do", 0, 1)

\* db.add of the rows `added`, in order, under the next ids of the sequence
InsertRows(rows, first, added) ==
  [a \in DOMAIN rows \cup (first..(first + Len(added) - 1)) |->
     IF a \in DOMAIN rows THEN rows[a] ELSE added[a - first + 1]]

\* the orders in which a Python set of assignees can be iterated
Orderings(S) ==
  {q \in [1..Cardinality(S) -> S] : \A x \in S : \E i \in DOMAIN q : q[i] = x}

\* DELETE /task-assignments/{assignment_id}
delete_task_assignment(current_user, assignment_id) ==
  /\ UNCHANGED dvars
  /\ UNCHANGED <<hvars, nextAssignId, now, inflight, succeeded>>
  /\ IF current_user.role \notin {"admin", "manager"}
     THEN /\ response' = Resp("delete_task_assignment", 403)
          /\ UNCHANGED task_assignments
     ELSE /\ task_assignments' =
               [a \in DOMAIN task_assignments \ {assignment_id} |-> task_assignments[a]]
          /\ response' = Resp("delete_task_assignment", 200)

\* PATCH /tasks/{task_id}; has_assignees: the body carries an assignee list
patch_update_task(cap, task_id, has_assignees, assignees) ==
  /\ UNCHANGED dvars
  /\ UNCHANGED <<hvars, now, inflight, succeeded>>
  /\ IF task_id \notin DOMAIN tasks
     THEN /\ response' = Resp("patch_update_task", 404)
          /\ UNCHANGED <<task_assignments, nextAssignId>>
     ELSE IF ~has_assignees
     THEN /\ response' = Resp("patch_update_task", 200)
          /\ UNCHANGED <<task_assignments, nextAssignId>>
     ELSE LET mine == AssignmentsOfTask(task_assignments, task_id)
              current_assignees == {task_assignments[a].assigned_to : a \in mine}
              new_assignees == assignees
              removed == current_assignees \ new_assignees
              added == new_assignees \ current_assignees
              kept == [a \in DOMAIN task_assignments \
                              {b \in mine : task_assignments[b].assigned_to \in removed}
                         |-> task_assignments[a]]
          IN /\ nextAssignId + Cardinality(added) - 1 <= cap
             /\ \E q \in Orderings(added) :
                  task_assignments' =
                    InsertRows(kept, nextAssignId,
                               [i \in DOMAIN q |-> NewAssignment(task_id, q[i])])
             /\ nextAssignId' = nextAssignId + Cardinality(added)
             /\ response' = Resp("patch_update_task", 200)

\* for task_id in update.task_ids of bulk_assign_tasks: the rows of an
\* existing task are deleted and one row for user_id is added; st is the
\* pair <<rows, next id>>
RECURSIVE bulk_assign_loop_keep(_, _, _)
bulk_assign_loop_keep(st, task_ids, user_id) ==
  IF task_ids = <<>> THEN st
  ELSE bulk_assign_loop_keep(
         IF Head(task_ids) \in DOMAIN tasks
         THEN <<InsertRows(st[1], st[2], <<NewAssignment(Head(task_ids), user_id)>>),
                st[2] + 1>>
         ELSE st,
         Tail(task_ids), user_id)

RECURSIVE bulk_assign_loop(_, _, _)
bulk_assign_loop(st, task_ids, user_id) ==
  IF task_ids = <<>> THEN st
  ELSE bulk_assign_loop(
         IF Head(task_ids) \in DOMAIN tasks
         THEN <<InsertRows(
                  [a \in DOMAIN st[1] \ AssignmentsOfTask(st[1], Head(task_ids))
                     |-> st[1][a]],
                  st[2], <<NewAssignment(Head(task_ids), user_id)>>),
                st[2] + 1>>
         ELSE st,
         Tail(task_ids), user_id)

\* PATCH /tasks/bulk/assign
bulk_assign_tasks(cap, task_ids, user_id) ==
  /\ UNCHANGED dvars
  /\ UNCHANGED <<hvars, now, inflight, succeeded>>
  /\ LET out == bulk_assign_loop(<<task_assignments, nextAssignId>>, task_ids, user_id)
     IN /\ out[2] - 1 <= cap
        /\ task_assignments' = out[1]
        /\ nextAssignId' = out[2]
  /\ response' = BulkResp("bulk_assign_tasks", task_ids)

\* the task id lists sent to the bulk operations
BulkLists ==
  {<<1>>, <<2>>, <<1, 2>>, <<MissingTask>>, <<MissingTask, 1>>, <<2, MissingTask>>}

\* the bodies of PUT /task-assignments/{id} that move a row to another pair
PairBodies ==
  {Assignment(t, who, "To Do", 0, 1) : t \in TaskIds, who \in AssigneeIds}

BulkCreateTask ==
  \E u \in Principals, t \in TaskIds : create_task(u, t, None, "To Do")

BulkCreate ==
  \E u \in Callers, body \in PairBodies :
    create_task_assignment(MaxBulkIds, u, body)

BulkPut ==
  \E id \in 1..MaxBulkIds, body \in PairBodies : update_task_assignment(id, body)

BulkPatch ==
  \E t \in TaskIds \cup {MissingTask}, has \in BOOLEAN, as \in SUBSET AssigneeIds :
    patch_update_task(MaxBulkIds, t, has, as)

BulkAssign ==
  \E ids \in BulkLists, who \in AssigneeIds : bulk_assign_tasks(MaxBulkIds, ids, who)

\* the statuses sent to the bulk status update
BulkStatuses == {"In Progress", "Completed"}

BulkStatus ==
  \E ids \in BulkLists, st \in BulkStatuses : bulk_update_status(ids, st)

BulkDelete ==
  \E u \in Callers, id \in 1..MaxBulkIds : delete_task_assignment(u, id)

\* create, full update, assignee list, bulk reassignment, delete
NextPairs ==
  \/ BulkCreateTask
  \/ BulkCreate
  \/ BulkPut
  \/ BulkPatch
  \/ BulkAssign
  \/ BulkDelete

SpecPairs == InitTree /\ [][NextPairs]_vars

\* the bulk operations over rows made by create
NextBulk ==
  \/ BulkCreateTask
  \/ BulkCreate
  \/ BulkAssign
  \/ BulkStatus

SpecBulk == InitTree /\ [][NextBulk]_vars

\* C11: no two assignment rows have the same (task_id, assigned_to) pair.
C11_UniqueTaskAssignee ==
  \A a, b \in DOMAIN task_assignments :
    ( /\ task_assignments[a].task_id = task_assignments[b].task_id
      /\ task_assignments[a].assigned_to = task_assignments[b].assigned_to )
    => a = b

\* ---------------------------------------------------------------------
\* Task dependencies: routers/task_dependencies.py
\* ---------------------------------------------------------------------
MaxDepIds == 3

DependencyTypes == {"blocks", "requires"}

\* DependencyBase
Dependency(task_id, depends_on, dependency_type) ==
  [task_id |-> task_id, depends_on |-> depends_on,
   dependency_type |-> dependency_type]

\* the tasks reached from the tasks of S along at most n stored edges
RECURSIVE DependsClosure(_, _, _)
DependsClosure(rows, S, n) ==
  IF n = 0 THEN S
  ELSE DependsClosure(rows,
         S \cup {rows[d].depends_on : d \in {e \in DOMAIN rows : rows[e].task_id \in S}},
         n - 1)

\* existing_dependency that also finds a stored path back from depends_on
existing_dependency_or_path(rows, dependency) ==
  {d \in DOMAIN rows :
     \/ /\ rows[d].task_id = dependency.task_id
        /\ rows[d].depends_on = dependency.depends_on
     \/ dependency.task_id
          \in DependsClosure(rows, {dependency.depends_on}, Cardinality(DOMAIN rows))}

\* the select `existing` of create_task_dependency: the rows of the same pair
existing_dependency(rows, dependency) ==
  {d \in DOMAIN rows :
     /\ rows[d].task_id = dependency.task_id
     /\ rows[d].depends_on = dependency.depends_on}

\* POST /task-dependencies/
create_task_dependency(current_user, dependency) ==
  /\ UNCHANGED <<hvars, avars, participations, nextPartId>>
  /\ nextDepId <= MaxDepIds
  /\ LET op(code) == Resp("create_task_dependency", code)
         existing == existing_dependency(task_dependencies, dependency)
     IN
     IF current_user.role \notin {"admin", "manager"}
     THEN response' = op(403) /\ UNCHANGED <<task_dependencies, nextDepId>>
     ELSE IF dependency.task_id = dependency.depends_on
     THEN response' = op(400) /\ UNCHANGED <<task_dependencies, nextDepId>>
     ELSE IF existing # {}
     THEN response' = op(400) /\ UNCHANGED <<task_dependencies, nextDepId>>
     ELSE IF ~({dependency.task_id, dependency.depends_on} \subseteq DOMAIN tasks)
     THEN response' = op(500) /\ UNCHANGED <<task_dependencies, nextDepId>>
     ELSE /\ task_dependencies' =
               [d \in DOMAIN task_dependencies \cup {nextDepId} |->
                  IF d = nextDepId THEN dependency ELSE task_dependencies[d]]
          /\ nextDepId' = nextDepId + 1
          /\ response' = op(200)

\* PUT /task-dependencies/{dependency_id}
update_task_dependency(current_user, dependency_id, dependency) ==
  /\ UNCHANGED <<hvars, avars, participations, nextPartId, nextDepId>>
  /\ LET op(code) == Resp("update_task_dependency", code)
     IN
     IF current_user.role \notin {"admin", "manager"}
     THEN response' = op(403) /\ UNCHANGED task_dependencies
     ELSE IF dependency.task_id = dependency.depends_on
     THEN response' = op(400) /\ UNCHANGED task_dependencies
     ELSE IF dependency_id \notin DOMAIN task_dependencies
     THEN response' = op(404) /\ UNCHANGED task_dependencies
     ELSE IF ~({dependency.task_id, dependency.depends_on} \subseteq DOMAIN tasks)
     THEN response' = op(500) /\ UNCHANGED task_dependencies
     ELSE /\ task_dependencies' =
               [task_dependencies EXCEPT ![dependency_id] = dependency]
          /\ response' = op(200)

\* DELETE /task-dependencies/{dependency_id}
delete_task_dependency(current_user, dependency_id) ==
  /\ UNCHANGED <<hvars, avars, participations, nextPartId, nextDepId>>
  /\ IF current_user.role \notin {"admin", "manager"}
     THEN /\ response' = Resp("delete_task_dependency", 403)
          /\ UNCHANGED task_dependencies
     ELSE /\ task_dependencies' =
               [d \in DOMAIN task_dependencies \ {dependency_id} |-> task_dependencies[d]]
          /\ response' = Resp("delete_task_dependency", 200)

\* the bodies sent to POST and PUT /task-dependencies
DependencyBodies ==
  {Dependency(t, d, k) :
     t \in TaskIds \cup {MissingTask}, d \in TaskIds, k \in DependencyTypes}

DepCreateTask ==
  \E u \in Callers, t \in TaskIds : create_task(u, t, None, "To Do")

DepCreate ==
  \E u \in Callers, body \in DependencyBodies : create_task_dependency(u, body)

DepUpdate ==
  \E u \in Callers, id \in 1..MaxDepIds, body \in DependencyBodies :
    update_task_dependency(u, id, body)

DepDelete ==
  \E u \in Callers, id \in 1..MaxDepIds : delete_task_dependency(u, id)

NextDeps ==
  \/ DepCreateTask
  \/ DepCreate
  \/ DepUpdate
  \/ DepDelete

SpecDeps == InitTree /\ [][NextDeps]_vars

\* C12: no dependency row has task_id = depends_on, and no two rows have
\* the same ordered pair (task_id, depends_on).
C12_NoSelfNoDuplicateEdge ==
  /\ \A d \in DOMAIN task_dependencies :
       task_dependencies[d].task_id # task_dependencies[d].depends_on
  /\ \A d, e \in DOMAIN task_dependencies :
       ( /\ task_dependencies[d].task_id = task_dependencies[e].task_id
         /\ task_dependencies[d].depends_on = task_dependencies[e].depends_on )
       => d = e

\* ---------------------------------------------------------------------
\* Participations: routers/subdepartments.py and routers/departments.py
\* ---------------------------------------------------------------------
MaxPartIds == 2

Roles == {"member", "lead"}
MemberIds == {1, 2}

\* a row of table subdepartmentparticipations
Participation(subdepartment_id, user_id, role) ==
  [subdepartment_id |-> subdepartment_id, user_id |-> user_id, role |-> role]

\* .insert(...) of one participation row
InsertParticipation(row) ==
  /\ participations' =
       [i \in DOMAIN participations \cup {nextPartId} |->
          IF i = nextPartId THEN row ELSE participations[i]]
  /\ nextPartId' = nextPartId + 1

\* POST /api/subdepartments/participations
create_participation(current_user, participation) ==
  /\ UNCHANGED <<hvars, avars, task_dependencies, nextDepId>>
  /\ nextPartId <= MaxPartIds
  /\ LET existing == {i \in DOMAIN participations :
                        /\ participations[i].user_id = participation.user_id
                        /\ participations[i].subdepartment_id
                             = participation.subdepartment_id}
     IN
     IF current_user.role \notin {"admin", "manager"}
     THEN /\ response' = Resp("create_participation", 403)
          /\ UNCHANGED <<participations, nextPartId>>
     ELSE IF existing # {}
     THEN /\ response' = Resp("create_participation", 400)
          /\ UNCHANGED <<participations, nextPartId>>
     ELSE /\ InsertParticipation(participation)
          /\ response' = Resp("create_participation", 200)

\* POST /api/subdepartments/assign-member
assign_member(current_user, subdepartment_id, user_id, role) ==
  /\ UNCHANGED <<hvars, avars, task_dependencies, nextDepId>>
  /\ nextPartId <= MaxPartIds
  /\ IF current_user.role \notin {"admin", "manager"}
     THEN /\ response' = Resp("assign_member", 403)
          /\ UNCHANGED <<participations, nextPartId>>
     ELSE /\ InsertParticipation(Participation(subdepartment_id, user_id, role))
          /\ response' = Resp("assign_member", 200)

\* POST /departments/subdepartments/{subdepartment_id}/participants; no
\* subdepartment of the model has a manager_id, so only an admin passes
add_participant(current_user, subdepartment_id, participation) ==
  /\ UNCHANGED <<hvars, avars, task_dependencies, nextDepId>>
  /\ nextPartId <= MaxPartIds
  /\ IF subdepartment_id \notin DOMAIN subdepartments
     THEN /\ response' = Resp("add_participant", 404)
          /\ UNCHANGED <<participations, nextPartId>>
     ELSE IF current_user.role # "admin"
     THEN /\ response' = Resp("add_participant", 403)
          /\ UNCHANGED <<participations, nextPartId>>
     ELSE /\ InsertParticipation(
               Participation(subdepartment_id, participation.user_id,
                             participation.role))
          /\ response' = Resp("add_participant", 200)

\* PATCH /api/subdepartments/participations/{participation_id}
update_participation(current_user, participation_id, role) ==
  /\ UNCHANGED <<hvars, avars, task_dependencies, nextDepId, nextPartId>>
  /\ IF current_user.role \notin {"admin", "manager"}
     THEN /\ response' = Resp("update_participation", 403)
          /\ UNCHANGED participations
     ELSE /\ participations' =
               [i \in DOMAIN participations |->
                  IF i = participation_id
                  THEN [participations[i] EXCEPT !.role = role]
                  ELSE participations[i]]
          /\ response' = Resp("update_participation", 200)

\* DELETE /api/subdepartments/participations/{participation_id}
delete_participation(current_user, participation_id) ==
  /\ UNCHANGED <<hvars, avars, task_dependencies, nextDepId, nextPartId>>
  /\ IF current_user.role \notin {"admin", "manager"}
     THEN /\ response' = Resp("delete_participation", 403)
          /\ UNCHANGED participations
     ELSE /\ participations' =
               [i \in DOMAIN participations \ {participation_id} |-> participations[i]]
          /\ response' = Resp("delete_participation", 200)

\* DELETE /api/subdepartments/remove-member
remove_member(current_user, subdepartment_id, user_id) ==
  /\ UNCHANGED <<hvars, avars, task_dependencies, nextDepId, nextPartId>>
  /\ IF current_user.role \notin {"admin", "manager"}
     THEN /\ response' = Resp("remove_member", 403)
          /\ UNCHANGED participations
     ELSE /\ participations' =
               [i \in {j \in DOMAIN participations :
                         ~( /\ participations[j].subdepartment_id = subdepartment_id
                            /\ participations[j].user_id = user_id )}
                  |-> participations[i]]
          /\ response' = Resp("remove_member", 200)

MemCreateSub ==
  \E u \in Principals : create_subdepartment(1, u, None)

MemCreate ==
  \E u \in Callers, sd \in {1, 2}, m \in MemberIds, r \in Roles :
    create_participation(u, Participation(sd, m, r))

MemAssign ==
  \E u \in Callers, sd \in {1, 2}, m \in MemberIds, r \in Roles :
    assign_member(u, sd, m, r)

MemAdd ==
  \E u \in Callers, sd \in {1, 2}, m \in MemberIds, r \in Roles :
    add_participant(u, sd, [user_id |-> m, role |-> r])

MemUpdate ==
  \E u \in Callers, id \in 1..MaxPartIds, r \in Roles :
    update_participation(u, id, r)

MemDelete ==
  \E u \in Callers, id \in 1..MaxPartIds : delete_participation(u, id)

MemRemove ==
  \E u \in Callers, sd \in {1, 2}, m \in MemberIds : remove_member(u, sd, m)

NextMembers ==
  \/ MemCreateSub
  \/ MemCreate
  \/ MemAssign
  \/ MemAdd
  \/ MemUpdate
  \/ MemDelete
  \/ MemRemove

SpecMembers == InitTree /\ [][NextMembers]_vars

\* C13: no two participation rows have the same (subdepartment_id,
\* user_id) pair.
C13_UniqueMembership ==
  \A i, j \in DOMAIN participations :
    ( /\ participations[i].subdepartment_id = participations[j].subdepartment_id
      /\ participations[i].user_id = participations[j].user_id )
    => i = j

\* the rows left by the single-task status update applied to each listed
\* task in turn
RECURSIVE EachTaskStatus(_, _, _, _)
EachTaskStatus(rows, task_ids, status, t) ==
  IF task_ids = <<>> THEN rows
  ELSE EachTaskStatus(
         IF Head(task_ids) \in DOMAIN tasks
         THEN [a \in DOMAIN rows |->
                 IF rows[a].task_id = Head(task_ids)
                 THEN task_status_write(rows[a], status, t)
                 ELSE rows[a]]
         ELSE rows,
         Tail(task_ids), status, t)

\* C14: a bulk status update leaves every assignment row as the single-task
\* status update applied to each listed task would leave it: same status,
\* same derived progress, same timestamps.
C14_BulkStatusAsSingle ==
  [][response'.op = "bulk_update_status"
       => \A ids \in BulkLists, st \in Statuses :
            bulk_update_status(ids, st)
            => task_assignments' = EachTaskStatus(task_assignments, ids, st, now)]_vars

\* C15: after a bulk reassignment to a user, each listed existing task has
\* exactly one assignment row, assigned to that user with status To Do and
\* progress 0; every row the task had before is gone; the rows of the
\* tasks not listed are unchanged.
C15_BulkAssignReplaces ==
  [][response'.op = "bulk_assign_tasks"
       => \A ids \in BulkLists, who \in AssigneeIds :
            bulk_assign_tasks(MaxBulkIds, ids, who)
            => /\ \A t \in SeqRange(ids) \cap DOMAIN tasks :
                    /\ Cardinality(AssignmentsOfTask(task_assignments', t)) = 1
                    /\ \A a \in AssignmentsOfTask(task_assignments', t) :
                         /\ task_assignments'[a].assigned_to = who
                         /\ task_assignments'[a].status = "To Do"
                         /\ task_assignments'[a].progress = 0
                    /\ AssignmentsOfTask(task_assignments, t)
                         \cap DOMAIN task_assignments' = {}
               /\ \A a \in DOMAIN task_assignments :
                    task_assignments[a].task_id \notin SeqRange(ids)
                    => /\ a \in DOMAIN task_assignments'
                       /\ task_assignments'[a] = task_assignments[a]
               /\ \A a \in DOMAIN task_assignments' \ DOMAIN task_assignments :
                    task_assignments'[a].task_id \in SeqRange(ids)]_vars

\* rows 1 and 2 of task 1 were replaced by row 3
C15_Witness ==
  /\ response.op = "bulk_assign_tasks"
  /\ DOMAIN task_assignments = {3}
  /\ task_assignments[3].task_id = 1

\* C16: a bulk status update or bulk reassignment whose list holds a task
\* id that does not exist still answers 200, applies its change to every
\* listed task that exists, and changes and creates nothing for the
\* missing id.
C16_MissingTaskSkipped ==
  [][response'.op \in {"bulk_update_status", "bulk_assign_tasks"}
       /\ response'.skipped > 0
       => /\ response'.code = 200
          /\ tasks' = tasks
          /\ \A a \in DOMAIN task_assignments' :
               task_assignments'[a].task_id \in DOMAIN tasks
          /\ \A ids \in BulkLists :
               response' = BulkResp(response'.op, ids)
               => /\ response'.op = "bulk_update_status"
                       => \A st \in BulkStatuses :
                            bulk_update_status(ids, st)
                            => /\ DOMAIN task_assignments' = DOMAIN task_assignments
                               /\ \A a \in DOMAIN task_assignments :
                                    IF task_assignments[a].task_id \in SeqRange(ids)
                                    THEN task_assignments'[a].status = st
                                    ELSE task_assignments'[a] = task_assignments[a]
                  /\ response'.op = "bulk_assign_tasks"
                       => \A who \in AssigneeIds :
                            bulk_assign_tasks(MaxBulkIds, ids, who)
                            => \A t \in SeqRange(ids) \cap DOMAIN tasks :
                                 \E a \in DOMAIN task_assignments' :
                                   /\ task_assignments'[a].task_id = t
                                   /\ task_assignments'[a].assigned_to = who]_vars

\* a list with a missing id was answered and the row of the existing task
\* it also names was completed
C16_Witness ==
  /\ response.op = "bulk_update_status"
  /\ response.skipped > 0
  /\ \E a \in DOMAIN task_assignments : task_assignments[a].status = "Completed"

\* ---------------------------------------------------------------------
\* Walks over the hierarchy: get_all_descendant_ids as the read handlers
\* and the metrics helpers call it
\* ---------------------------------------------------------------------
\* a request that computes get_all_descendant_ids(db, subdept_id); the
\* answer carries the list, or 500 when the recursion never returns
walk_descendants(subdept_id) ==
  /\ UNCHANGED <<hvars, avars, dvars>>
  /\ IF RecursionOverflow(subdepartments, subdept_id, RecursionLimit)
     THEN response' = [op |-> "get_all_descendant_ids", code |-> 500,
                       subdept_id |-> subdept_id, body |-> <<>>]
     ELSE response' = [op |-> "get_all_descendant_ids", code |-> 200,
                       subdept_id |-> subdept_id,
                       body |-> get_all_descendant_ids(subdepartments, subdept_id,
                                                       RecursionLimit)]

WalkDescendants == \E id \in SubIds : walk_descendants(id)

NextWalk ==
  \/ TreeCreate
  \/ TreeMove
  \/ TreeDelete
  \/ TreeDepartmentsDelete
  \/ WalkDescendants

SpecWalk == InitTree /\ [][NextWalk]_vars

\* a sequence without repeated elements
NoRepeat(q) == \A i, j \in DOMAIN q : q[i] = q[j] => i = j

\* C17: on an acyclic hierarchy get_all_descendant_ids(id) returns exactly
\* the nodes whose parent_id chain reaches id, not id itself, each once.
C17_DescendantsAreClosure ==
  (response.op = "get_all_descendant_ids" /\ Acyclic(subdepartments))
    => /\ response.code = 200
       /\ SeqRange(response.body) =
            {x \in DOMAIN subdepartments :
               IsAncestor(subdepartments, response.subdept_id, x, MaxSub)}
       /\ response.subdept_id \notin SeqRange(response.body)
       /\ NoRepeat(response.body)

\* the walk from 1 over the chain 1 <- 2 <- 3 returned the two nodes below
C17_Witness ==
  /\ response.op = "get_all_descendant_ids"
  /\ response.subdept_id = 1
  /\ response.body = <<2, 3>>
  /\ Acyclic(subdepartments)

\* C18: get_all_descendant_ids(id) returns, without a repeated node, also
\* when the stored parent_id relation holds a cycle.
C18_WalkSurvivesCycle ==
  response.op = "get_all_descendant_ids"
    => response.code = 200 /\ NoRepeat(response.body)

\* ---------------------------------------------------------------------
\* Subtree metrics: get_subdepartments with include_metrics
\* ---------------------------------------------------------------------
\* subdept_ids = get_all_descendant_ids(db, subdept_id); .append(subdept_id)
SubtreeIds(subdept_id) ==
  SeqRange(get_all_descendant_ids(subdepartments, subdept_id, RecursionLimit))
    \cup {subdept_id}

get_recursive_task_count(subdept_id) ==
  Cardinality({t \in DOMAIN tasks : tasks[t].subdepartment_id \in SubtreeIds(subdept_id)})

get_recursive_member_count(subdept_id) ==
  Cardinality({u \in DOMAIN users : users[u].subdepartment_id \in SubtreeIds(subdept_id)})

\* the quotient a / b, kept exact as the pair of a and b
Quotient(a, b) == <<a, b>>

\* (completed_tasks / total_tasks) * 100, or 0 without tasks
calculate_completion_rate(subdept_id) ==
  LET total_tasks ==
        Cardinality({t \in DOMAIN tasks :
                       tasks[t].subdepartment_id \in SubtreeIds(subdept_id)})
      completed_tasks ==
        Cardinality({t \in DOMAIN tasks :
                       /\ tasks[t].subdepartment_id \in SubtreeIds(subdept_id)
                       /\ tasks[t].status = "Completed"})
  IN IF total_tasks = 0 THEN 0
     ELSE Quotient(completed_tasks * 100, total_tasks)

\* GET /api/subdepartments/?parent_id=..&include_metrics=true; the handler
\* has no include_children parameter, a value sent for it is ignored
get_subdepartments(current_user, parent_id, include_children) ==
  /\ UNCHANGED <<hvars, avars, dvars>>
  /\ LET listed ==
           IF parent_id # None
           THEN {i \in DOMAIN subdepartments : subdepartments[i].parent_id = parent_id}
           ELSE {i \in DOMAIN subdepartments :
                   /\ subdepartments[i].department_id = current_user.department_id
                   /\ subdepartments[i].parent_id = None}
     IN IF \E i \in listed : RecursionOverflow(subdepartments, i, RecursionLimit)
        THEN response' = [op |-> "get_subdepartments", code |-> 500,
                          include_children |-> include_children,
                          metrics |-> EmptyFn]
        ELSE response' =
               [op |-> "get_subdepartments", code |-> 200,
                include_children |-> include_children,
                metrics |->
                  [i \in listed |->
                     [total_tasks |-> get_recursive_task_count(i),
                      total_members |-> get_recursive_member_count(i),
                      completion_rate |-> calculate_completion_rate(i)]]]

CntCreateTask ==
  \E u \in Callers, t \in TaskIds, sd \in {None} \cup 1..MaxSubD,
     st \in {"To Do", "Completed"} :
    create_task(u, t, sd, st)

CntMetrics ==
  \E u \in Principals, p \in {None} \cup 1..MaxSubD, ic \in BOOLEAN :
    get_subdepartments(u, p, ic)

NextCounts ==
  \/ DelCreate
  \/ DelMove
  \/ CntCreateTask
  \/ DelUpdateUser
  \/ CntMetrics

SpecCounts == InitTree /\ [][NextCounts]_vars

\* the nodes below id: those whose parent_id chain reaches id
DescendantsOf(id) ==
  {x \in DOMAIN subdepartments : IsAncestor(subdepartments, id, x, MaxSub)}

\* C19: the counts of a subdepartment are taken over the node and its
\* descendants when include_children is true and over the node alone
\* otherwise; completion_rate is 0 when the scope holds no task and
\* completed / total * 100 otherwise.
C19_SubtreeCounts ==
  (response.op = "get_subdepartments" /\ response.code = 200)
    => \A id \in DOMAIN response.metrics :
         LET scope == IF response.include_children
                      THEN {id} \cup DescendantsOf(id)
                      ELSE {id}
             in_scope == {t \in DOMAIN tasks : tasks[t].subdepartment_id \in scope}
             done == {t \in in_scope : tasks[t].status = "Completed"}
             members == {u \in DOMAIN users : users[u].subdepartment_id \in scope}
         IN /\ response.metrics[id].total_tasks = Cardinality(in_scope)
            /\ response.metrics[id].total_members = Cardinality(members)
            /\ response.metrics[id].completion_rate =
                 IF in_scope = {} THEN 0
                 ELSE Quotient(Cardinality(done) * 100, Cardinality(in_scope))

\* ---------------------------------------------------------------------
\* Status and progress updates of the assignments of one task
\* ---------------------------------------------------------------------
NextProgress ==
  \/ AsgCreateTask
  \/ AsgCreate
  \/ AsgStatus
  \/ AsgProgress
  \/ Tick

SpecProgress == InitTree /\ [][NextProgress]_vars

\* C20: a progress update with a value in 0..100 is accepted whatever the
\* status of the assignment, sets progress to the value, and leaves status,
\* started_at and completed_at as they were.
C20_ProgressIndependentOfStatus ==
  [][response'.op = "update_assignment_progress"
       => \A id \in DOMAIN task_assignments, p \in ProgressInputs :
            ( /\ 0 <= p /\ p <= 100
              /\ update_assignment_progress(id, p) )
            => /\ response'.code = 200
               /\ task_assignments'[id].progress = p
               /\ task_assignments'[id].status = task_assignments[id].status
               /\ task_assignments'[id].started_at = task_assignments[id].started_at
               /\ task_assignments'[id].completed_at
                    = task_assignments[id].completed_at]_vars

\* a completed assignment took progress 0
C20_Witness ==
  /\ response = Resp("update_assignment_progress", 200)
  /\ \E a \in DOMAIN task_assignments :
       /\ task_assignments[a].status = "Completed"
       /\ task_assignments[a].completed_at # None
       /\ task_assignments[a].progress = 0
       /\ task_assignments[a].version > 2

\* ---------------------------------------------------------------------
\* Requests carrying any progress and any status string
\* ---------------------------------------------------------------------
\* the bodies of POST and PUT /task-assignments with values of every kind
AnyBodies ==
  {Assignment(1, who, st, p, 1) :
     who \in AssigneeIds, st \in {"To Do", "Completed", "Bogus"}, p \in ProgressInputs}

ValCreate ==
  \E u \in Callers, body \in AnyBodies : create_task_assignment(MaxAssign, u, body)

ValPut ==
  \E id \in AssignIds, body \in AnyBodies : update_task_assignment(id, body)

NextValid ==
  \/ AsgCreateTask
  \/ ValCreate
  \/ ValPut
  \/ AsgStatus
  \/ AsgProgress
  \/ AsgBulkStatus

SpecValid == InitTree /\ [][NextValid]_vars

\* C21: every assignment has progress in 0..100 and one of the four
\* statuses, whatever requests were sent.
C21_ProgressAndStatusInRange ==
  \A a \in DOMAIN task_assignments :
    /\ task_assignments[a].progress \in 0..100
    /\ task_assignments[a].status \in Statuses

\* ---------------------------------------------------------------------
\* Status transitions
\* ---------------------------------------------------------------------
NextStatus ==
  \/ AsgCreateTask
  \/ AsgCreate
  \/ AsgStatus
  \/ AsgTaskStatus

SpecStatus == InitTree /\ [][NextStatus]_vars

\* C22: a status update to any of the four statuses is accepted whatever the
\* status the assignment is in, a move back from Completed included: the
\* call answers 200 and the assignment holds the requested status.
C22_AnyTransitionAccepted ==
  [][/\ response'.op = "update_assignment_status"
        => \A id \in DOMAIN task_assignments, st \in Statuses :
             update_assignment_status(id, st)
             => /\ response'.code = 200
                /\ task_assignments'[id].status = st
     /\ response'.op = "update_task_status"
        => \A t \in DOMAIN tasks, st \in Statuses :
             update_task_status(t, st)
             => /\ response'.code = 200
                /\ \A a \in AssignmentsOfTask(task_assignments, t) :
                     task_assignments'[a].status = st]_vars

\* an assignment that was completed and is back in To Do
C22_Witness ==
  /\ response = Resp("update_assignment_status", 200)
  /\ \E a \in DOMAIN task_assignments :
       /\ task_assignments[a].completed_at # None
       /\ task_assignments[a].status = "To Do"

\* ---------------------------------------------------------------------
\* Children of a deleted subdepartment
\* ---------------------------------------------------------------------
\* C23: a successful delete of a subdepartment that has children leaves
\* every child in the table with the parent_id it had, which now names the
\* deleted row.
C23_DeleteKeepsChildren ==
  [][response' = Resp("delete_subdepartment", 200)
       => \A u \in Principals, id \in DOMAIN subdepartments, r \in {None} \cup SubIds :
            delete_subdepartment(u, id, r)
            => \A c \in {k \in DOMAIN subdepartments : subdepartments[k].parent_id = id} :
                 /\ c \in DOMAIN subdepartments'
                 /\ subdepartments'[c] = subdepartments[c]
                 /\ subdepartments'[c].parent_id = id]_vars

\* a delete went through and a row still names a deleted parent
C23_Witness ==
  /\ response = Resp("delete_subdepartment", 200)
  /\ \E c \in DOMAIN subdepartments :
       /\ subdepartments[c].parent_id \in 1..(nextSubId - 1)
       /\ subdepartments[c].parent_id \notin DOMAIN subdepartments

\* ---------------------------------------------------------------------
\* Department of a parent
\* ---------------------------------------------------------------------
\* C24: every subdepartment whose parent_id names a row is in the
\* department of that row.
C24_ParentInSameDepartment ==
  \A c \in DOMAIN subdepartments :
    subdepartments[c].parent_id \in DOMAIN subdepartments
    => subdepartments[c].department_id
         = subdepartments[subdepartments[c].parent_id].department_id

\* ---------------------------------------------------------------------
\* Dependency cycles
\* ---------------------------------------------------------------------
CycleTaskIds == {1, 2, 3}

CycleBodies ==
  {Dependency(t, d, "blocks") : t \in CycleTaskIds, d \in CycleTaskIds}

CycCreateTask ==
  \E u \in Callers, t \in CycleTaskIds : create_task(u, t, None, "To Do")

CycCreate ==
  \E u \in Callers, body \in CycleBodies : create_task_dependency(u, body)

CycDelete ==
  \E u \in Callers, id \in 1..MaxDepIds : delete_task_dependency(u, id)

NextCycle ==
  \/ CycCreateTask
  \/ CycCreate
  \/ CycDelete

SpecCycle == InitTree /\ [][NextCycle]_vars

\* C25: createDependency looks for no stored path: a new edge between two
\* different existing tasks that is not stored yet is accepted and stored
\* also when the stored edges already lead from depends_on back to task_id,
\* so that C -> A after A -> B and B -> C closes a cycle of three tasks.
C25_CycleClosingEdgeAccepted ==
  [][response'.op = "create_task_dependency"
       => \A u \in Callers, body \in CycleBodies :
            ( /\ u.role \in {"admin", "manager"}
              /\ body.task_id # body.depends_on
              /\ {body.task_id, body.depends_on} \subseteq DOMAIN tasks
              /\ \A d \in DOMAIN task_dependencies :
                   \/ task_dependencies[d].task_id # body.task_id
                   \/ task_dependencies[d].depends_on # body.depends_on
              /\ body.task_id
                   \in DependsClosure(task_dependencies, {body.depends_on},
                                      Cardinality(DOMAIN task_dependencies))
              /\ create_task_dependency(u, body) )
            => /\ response'.code = 200
               /\ task_dependencies'[nextDepId] = body]_vars

\* the three stored edges form the cycle 1 -> 2 -> 3 -> 1, closed by the
\* request just answered
C25_Witness ==
  /\ response = Resp("create_task_dependency", 200)
  /\ DOMAIN task_dependencies = {nextDepId - 3, nextDepId - 2, nextDepId - 1}
  /\ {<<task_dependencies[d].task_id, task_dependencies[d].depends_on>> :
        d \in DOMAIN task_dependencies} = {<<1, 2>>, <<2, 3>>, <<3, 1>>}

\* ---------------------------------------------------------------------
\* Scores of routers/analytics.py
\* ---------------------------------------------------------------------
\* the longest list handed to calculate_efficiency_score
MaxScored == 2

\* Python numbers as fractions <<numerator, denominator>> in lowest terms
\* with a positive denominator
RECURSIVE Gcd(_, _)
Gcd(a, b) == IF b = 0 THEN a ELSE Gcd(b, a % b)

Abs(a) == IF a < 0 THEN -a ELSE a

Rat(n, d) ==
  LET g == Gcd(Abs(n), Abs(d))
      sg == IF d < 0 THEN -1 ELSE 1
  IN <<sg * (n \div g), sg * (d \div g)>>

RatAdd(a, b) == Rat(a[1] * b[2] + b[1] * a[2], a[2] * b[2])
RatMul(a, b) == Rat(a[1] * b[1], a[2] * b[2])
RatDiv(a, b) == Rat(a[1] * b[2], a[2] * b[1])
RatLeq(a, b) == a[1] * b[2] <= b[1] * a[2]
RatMin(a, b) == IF RatLeq(b, a) THEN b ELSE a

\* sum(scores)
RECURSIVE RatSum(_)
RatSum(scores) ==
  IF scores = <<>> THEN Rat(0, 1)
  ELSE RatAdd(Head(scores), RatSum(Tail(scores)))

\* PriorityEnum
Priorities == {"Critical", "High", "Medium", "Low"}

\* priority_weights of calculate_efficiency_score
priority_weights(priority) ==
  CASE priority = "Critical" -> 4
    [] priority = "High" -> 3
    [] priority = "Medium" -> 2
    [] priority = "Low" -> 1

\* estimated_duration, 5 days in seconds
estimated_duration == 432000

\* (assignment.completed_at - assignment.started_at).total_seconds()
actual_duration(assignment) == assignment.completed_at - assignment.started_at

\* efficiency without the cap at 2
efficiency_uncapped(actual) ==
  IF actual > 0 THEN Rat(estimated_duration, actual) ELSE Rat(1, 1)

\* efficiency = min(estimated_duration / actual_duration
\*                  if actual_duration > 0 else 1, 2)
efficiency(actual) ==
  RatMin(IF actual > 0 THEN Rat(estimated_duration, actual) ELSE Rat(1, 1),
         Rat(2, 1))

\* calculate_efficiency_score(assignments)
calculate_efficiency_score(assignments) ==
  IF assignments = <<>> THEN Rat(0, 1)
  ELSE LET timed(a) == a.completed_at # None /\ a.started_at # None
           kept == SelectSeq(assignments, timed)
           scores ==
             [i \in 1..Len(kept) |->
                RatMul(efficiency(actual_duration(kept[i])),
                       Rat(priority_weights(kept[i].priority), 1))]
       IN IF scores # <<>>
          THEN RatMul(RatDiv(RatSum(scores), Rat(Len(scores), 1)), Rat(25, 1))
          ELSE Rat(0, 1)

\* the assignments of a report: timestamps in seconds, None when unset, and
\* the priority of the task
ScoredAssignments ==
  [started_at : {None, 540000, 648000},
   completed_at : {None, 432000, 648000, 864000, 1512000},
   priority : Priorities]

RECURSIVE SeqsUpTo(_, _)
SeqsUpTo(S, n) ==
  IF n = 0 THEN {<<>>}
  ELSE LET shorter == SeqsUpTo(S, n - 1)
       IN shorter \cup {Append(q, x) : q \in {r \in shorter : Len(r) = n - 1}, x \in S}

\* a report is requested for a list of assignments
InitScore ==
  /\ subdepartments = EmptyFn
  /\ nextSubId = 1
  /\ users = [u \in UserIds |-> [subdepartment_id |-> None]]
  /\ tasks = EmptyFn
  /\ task_assignments = EmptyFn
  /\ nextAssignId = 1
  /\ now = 1
  /\ inflight = [c \in Clients |-> Idle]
  /\ succeeded = EmptyFn
  /\ task_dependencies = EmptyFn
  /\ nextDepId = 1
  /\ participations = EmptyFn
  /\ nextPartId = 1
  /\ response \in {[op |-> "request", assignments |-> q] :
                     q \in SeqsUpTo(ScoredAssignments, MaxScored)}

\* GET /api/analytics/performance/metrics answers with the efficiency score
EfficiencyScore ==
  /\ response.op = "request"
  /\ response' = [op |-> "calculate_efficiency_score",
                  assignments |-> response.assignments,
                  efficiency_score |-> calculate_efficiency_score(response.assignments)]
  /\ UNCHANGED <<hvars, avars, dvars>>

NextScore == EfficiencyScore

SpecScore == InitScore /\ [][NextScore]_vars

\* the assignments of the list with both timestamps
Timed(assignments) ==
  {i \in DOMAIN assignments :
     assignments[i].started_at # None /\ assignments[i].completed_at # None}

\* the sum of the values of w over the indices I
RECURSIVE RatTotal(_, _)
RatTotal(w, I) ==
  IF I = {} THEN Rat(0, 1)
  ELSE LET i == CHOOSE k \in I : TRUE
       IN RatAdd(w[i], RatTotal(w, I \ {i}))

\* mean(efficiency * priority_weight) * 25 over the timed assignments, 0
\* without any
StatedScore(assignments, eff(_)) ==
  LET w == [i \in Timed(assignments) |->
              RatMul(eff(actual_duration(assignments[i])),
                     Rat(priority_weights(assignments[i].priority), 1))]
  IN IF Timed(assignments) = {} THEN Rat(0, 1)
     ELSE RatMul(RatDiv(RatTotal(w, Timed(assignments)),
                        Rat(Cardinality(Timed(assignments)), 1)),
                 Rat(25, 1))

\* C26 as stated: the efficiency score is mean(min(estimated_duration /
\* actual_duration, 2) * priority_weight) * 25 over the assignments with both
\* timestamps, whatever the actual duration (lists with a duration of zero,
\* where the quotient has no value, are left out), 0 when none qualifies, and
\* lies in 0..200.
C26_EfficiencyScoreAsStated ==
  ( /\ response.op = "calculate_efficiency_score"
    /\ \A i \in Timed(response.assignments) :
         actual_duration(response.assignments[i]) # 0 )
  => LET quotient(actual) == RatMin(Rat(estimated_duration, actual), Rat(2, 1))
     IN response.efficiency_score = StatedScore(response.assignments, quotient)

\* C26, amended: the efficiency of one assignment is min(estimated_duration
\* / actual_duration, 2) when the actual duration is positive and 1 when it
\* is zero or negative; the score is mean(efficiency * priority_weight) * 25
\* over the assignments with both timestamps, 0 when none qualifies, lies in
\* 0..200, and is 200 for one Critical assignment that took 216000 seconds.
C26_EfficiencyScore ==
  response.op = "calculate_efficiency_score"
  => LET guarded(actual) ==
           IF actual > 0
           THEN RatMin(Rat(estimated_duration, actual), Rat(2, 1))
           ELSE Rat(1, 1)
         score == response.efficiency_score
     IN /\ score = StatedScore(response.assignments, guarded)
        /\ RatLeq(Rat(0, 1), score) /\ RatLeq(score, Rat(200, 1))
        /\ ( /\ Len(response.assignments) = 1
             /\ response.assignments[1].priority = "Critical"
             /\ response.assignments[1].started_at # None
             /\ response.assignments[1].completed_at # None
             /\ actual_duration(response.assignments[1]) = 216000 )
           => score = Rat(200, 1)

\* the scenario of one Critical assignment finished in 216000 seconds, and a
\* list with an assignment completed before it was started
C26_Witness ==
  /\ response.op = "calculate_efficiency_score"
  /\ Len(response.assignments) = 2
  /\ response.assignments[1].priority = "Critical"
  /\ response.assignments[1].started_at # None
  /\ response.assignments[1].completed_at # None
  /\ actual_duration(response.assignments[1]) = 216000
  /\ response.assignments[2].started_at # None
  /\ response.assignments[2].completed_at # None
  /\ actual_duration(response.assignments[2]) < 0
  /\ response.efficiency_score = Rat(225, 2)

\* ---------------------------------------------------------------------
\* Workload score
\* ---------------------------------------------------------------------
\* the most assignments of one priority a user holds
MaxPerPriority == 3

\* the `case` of get_workload_distribution: the weight of a task in the load
load_weight(priority) ==
  CASE priority = "Critical" -> 3
    [] priority = "High" -> 2
    [] priority = "Medium" -> 1
    [] OTHER -> 0

\* calculate_workload_score without the cap of the base score
calculate_workload_score_uncapped(active_tasks, weighted_load) ==
  LET base_score == Rat(active_tasks * 10, 1)
      weight_factor ==
        RatMin(IF active_tasks > 0 THEN Rat(weighted_load, active_tasks)
               ELSE Rat(0, 1),
               Rat(2, 1))
  IN RatMul(base_score, weight_factor)

\* calculate_workload_score(active_tasks, weighted_load)
calculate_workload_score(active_tasks, weighted_load) ==
  LET base_score ==
        IF active_tasks * 10 <= 100 THEN Rat(active_tasks * 10, 1) ELSE Rat(100, 1)
      weight_factor ==
        RatMin(IF active_tasks > 0 THEN Rat(weighted_load, active_tasks)
               ELSE Rat(0, 1),
               Rat(2, 1))
  IN RatMul(base_score, weight_factor)

\* the assignments of one user, counted by status group and task priority:
\* active[p] assignments in To Do or In Progress on tasks of priority p,
\* other[p] assignments in another status
UserLoads ==
  [active : [Priorities -> 0..MaxPerPriority],
   other : [Priorities -> 0..1]]

RECURSIVE SumOver(_, _)
SumOver(f, S) ==
  IF S = {} THEN 0
  ELSE LET x == CHOOSE y \in S : TRUE
       IN f[x] + SumOver(f, S \ {x})

\* a request for the distribution, or a call of the score on two numbers
InitWorkload ==
  /\ subdepartments = EmptyFn
  /\ nextSubId = 1
  /\ users = [u \in UserIds |-> [subdepartment_id |-> None]]
  /\ tasks = EmptyFn
  /\ task_assignments = EmptyFn
  /\ nextAssignId = 1
  /\ now = 1
  /\ inflight = [c \in Clients |-> Idle]
  /\ succeeded = EmptyFn
  /\ task_dependencies = EmptyFn
  /\ nextDepId = 1
  /\ participations = EmptyFn
  /\ nextPartId = 1
  /\ response \in
       {[op |-> "request", load |-> l] : l \in {u \in UserLoads :
                                                  \A p \in Priorities \ {"Low"} :
                                                    u.other[p] = 0}}
       \cup {[op |-> "call", active_tasks |-> a, weighted_load |-> w] :
               a \in 0..(4 * MaxPerPriority), w \in 0..(4 * MaxPerPriority)}

\* GET /api/analytics/workload/distribution, the entry of one user: the
\* grouped query counts the joined rows with an active status and sums their
\* weights; a user without such a row is in no group and gets no entry
get_workload_distribution ==
  /\ response.op = "request"
  /\ LET by_priority == response.load.active
         active_tasks == SumOver(by_priority, Priorities)
         weights == [p \in Priorities |-> by_priority[p] * load_weight(p)]
         weighted_load == SumOver(weights, Priorities)
     IN response' =
          IF active_tasks = 0
          THEN [op |-> "get_workload_distribution", load |-> response.load,
                listed |-> FALSE]
          ELSE [op |-> "get_workload_distribution", load |-> response.load,
                listed |-> TRUE,
                active_tasks |-> active_tasks,
                weighted_load |-> weighted_load,
                workload_score |-> calculate_workload_score(active_tasks, weighted_load)]
  /\ UNCHANGED <<hvars, avars, dvars>>

\* calculate_workload_score applied to two numbers
WorkloadScore ==
  /\ response.op = "call"
  /\ response' = [op |-> "calculate_workload_score",
                  active_tasks |-> response.active_tasks,
                  weighted_load |-> response.weighted_load,
                  workload_score |->
                    calculate_workload_score(response.active_tasks,
                                             response.weighted_load)]
  /\ UNCHANGED <<hvars, avars, dvars>>

NextWorkload ==
  \/ get_workload_distribution
  \/ WorkloadScore

SpecWorkload == InitWorkload /\ [][NextWorkload]_vars

\* min(active * 10, 100) * min(load / active, 2), 0 without active tasks
StatedWorkload(active, load) ==
  IF active = 0 THEN Rat(0, 1)
  ELSE LET base == IF active >= 10 THEN 100 ELSE active * 10
       IN IF load >= 2 * active THEN Rat(2 * base, 1) ELSE Rat(base * load, active)

MaxCount == 9

\* int(n / d) of Python for d > 0: the quotient cut towards zero
IntOf(n, d) == IF n >= 0 THEN n \div d ELSE -((-n) \div d)

\* round(n / d) of Python for d > 0: the nearest integer, the even one of
\* two that are equally near
RoundOf(n, d) ==
  LET q == n \div d
      r == n - q * d
  IN IF 2 * r < d THEN q
     ELSE IF 2 * r > d THEN q + 1
     ELSE IF q % 2 = 0 THEN q ELSE q + 1

\* calc_change of get_department_stats
calc_change(current, previous) ==
  IF previous = 0
  THEN IF current > 0 THEN 100 ELSE 0
  ELSE IntOf((current - previous) * 100, previous)

\* calculate_change of get_personal_stats
calculate_change(current, previous) ==
  IF previous = 0
  THEN IF current > 0 THEN 100 ELSE 0
  ELSE RoundOf((current - previous) * 100, previous)

\* a summary is requested with the counts of the two periods
InitChange ==
  /\ subdepartments = EmptyFn
  /\ nextSubId = 1
  /\ users = [u \in UserIds |-> [subdepartment_id |-> None]]
  /\ tasks = EmptyFn
  /\ task_assignments = EmptyFn
  /\ nextAssignId = 1
  /\ now = 1
  /\ inflight = [c \in Clients |-> Idle]
  /\ succeeded = EmptyFn
  /\ task_dependencies = EmptyFn
  /\ nextDepId = 1
  /\ participations = EmptyFn
  /\ nextPartId = 1
  /\ response \in {[op |-> "request", current |-> c, previous |-> p] :
                     c \in 0..MaxCount, p \in 0..MaxCount}

\* the department summary reports calc_change(current, previous)
get_department_stats ==
  /\ response.op = "request"
  /\ response' = [op |-> "get_department_stats",
                  current |-> response.current, previous |-> response.previous,
                  change |-> calc_change(response.current, response.previous)]
  /\ UNCHANGED <<hvars, avars, dvars>>

\* the personal summary reports calculate_change(current, previous)
get_personal_stats ==
  /\ response.op = "request"
  /\ response' = [op |-> "get_personal_stats",
                  current |-> response.current, previous |-> response.previous,
                  change |-> calculate_change(response.current, response.previous)]
  /\ UNCHANGED <<hvars, avars, dvars>>

NextChange ==
  \/ get_department_stats
  \/ get_personal_stats

SpecChange == InitChange /\ [][NextChange]_vars

\* C28: every summary reports change(current, previous) = 100 if previous = 0
\* and current > 0, 0 if both are 0, and otherwise an integer nearest to
\* (current - previous) / previous * 100, so that the department summary and
\* the personal summary report the same value for the same counts (they may
\* differ only where two integers are equally near).
C28_ChangeRounded ==
  response.op \in {"get_department_stats", "get_personal_stats"}
  => LET c == response.current
         p == response.previous
         v == response.change
     IN IF p = 0
        THEN v = IF c > 0 THEN 100 ELSE 0
        ELSE 2 * Abs(v * p - (c - p) * 100) <= p

\* ---------------------------------------------------------------------
\* Overdue count: routers/performance_metrics.py, routers/backlog_metrics.py
\* ---------------------------------------------------------------------
\* the most tasks of the department
MaxBacklog == 2

\* the tasks of a department: due_date (None when unset), the status column
\* of the task and the statuses of its assignments
BacklogTasks ==
  [due_date : {None, 1, 3},
   status : {"To Do", "Completed"},
   assignments : SUBSET {"In Progress", "Completed"}]

\* the time of the request lies between the due dates 1 and 3
InitBacklog ==
  /\ subdepartments = EmptyFn
  /\ nextSubId = 1
  /\ users = [u \in UserIds |-> [subdepartment_id |-> None]]
  /\ tasks = EmptyFn
  /\ task_assignments = EmptyFn
  /\ nextAssignId = 1
  /\ now = 2
  /\ inflight = [c \in Clients |-> Idle]
  /\ succeeded = EmptyFn
  /\ task_dependencies = EmptyFn
  /\ nextDepId = 1
  /\ participations = EmptyFn
  /\ nextPartId = 1
  /\ response \in {[op |-> "request", department_id |-> 2, tasks |-> q] :
                     q \in SeqsUpTo(BacklogTasks, MaxBacklog)}

\* POST /backlog/calculate of routers/performance_metrics.py
performance_calculate_backlog_metrics(current_user) ==
  /\ response.op = "request"
  /\ LET op == "performance_metrics.calculate_backlog_metrics"
         rows == response.tasks
     IN response' =
          IF current_user.role \notin {"admin", "manager"}
          THEN [op |-> op, code |-> 403, tasks |-> rows]
          ELSE IF rows = <<>>
          THEN [op |-> op, code |-> 400, tasks |-> rows]
          ELSE [op |-> op, code |-> 200, tasks |-> rows,
                overdue_tasks |->
                  Cardinality({i \in DOMAIN rows :
                                 rows[i].due_date # None /\ rows[i].due_date < now})]
  /\ UNCHANGED <<hvars, avars, dvars>>

\* POST /calculate of routers/backlog_metrics.py
backlog_calculate_backlog_metrics(current_user) ==
  /\ response.op = "request"
  /\ LET op == "backlog_metrics.calculate_backlog_metrics"
         rows == response.tasks
         open == {i \in DOMAIN rows : rows[i].status # "Completed"}
     IN response' =
          IF current_user.role \notin {"admin", "manager"}
          THEN [op |-> op, code |-> 403, tasks |-> rows]
          ELSE IF current_user.role # "admin"
                  /\ current_user.department_id # response.department_id
          THEN [op |-> op, code |-> 403, tasks |-> rows]
          ELSE [op |-> op, code |-> 200, tasks |-> rows,
                overdue_tasks |->
                  Cardinality({i \in open :
                                 rows[i].due_date # None /\ rows[i].due_date < now})]
  /\ UNCHANGED <<hvars, avars, dvars>>

PerformanceBacklog == \E u \in Callers : performance_calculate_backlog_metrics(u)

BacklogBacklog == \E u \in Callers : backlog_calculate_backlog_metrics(u)

NextBacklog ==
  \/ PerformanceBacklog
  \/ BacklogBacklog

SpecBacklog == InitBacklog /\ [][NextBacklog]_vars

\* C29: the overdue count is the number of tasks of the department that
\* have a due_date before the time of the request and no assignment in
\* status Completed; a task without a due_date is not counted.
C29_OverdueCount ==
  ( /\ response.op \in {"performance_metrics.calculate_backlog_metrics",
                        "backlog_metrics.calculate_backlog_metrics"}
    /\ response.code = 200 )
  => response.overdue_tasks
       = Cardinality({i \in DOMAIN response.tasks :
                        /\ response.tasks[i].due_date # None
                        /\ response.tasks[i].due_date < now
                        /\ "Completed" \notin response.tasks[i].assignments})

\* ---------------------------------------------------------------------
\* Overlapping moves: PATCH /api/subdepartments/{subdept_id} is a read of
\* the hierarchy and a later write
\* ---------------------------------------------------------------------
\* update_subdepartment up to the end of its checks
move_begin(c, current_user, subdept_id, parent_id) ==
  /\ UNCHANGED dvars
  /\ inflight[c] = Idle
  /\ UNCHANGED <<hvars, task_assignments, nextAssignId, now, succeeded>>
  /\ LET op(code) == Resp("update_subdepartment", code)
         subdept == subdepartments[subdept_id]
     IN
     IF ~FindInDepartment(subdepartments, subdept_id, current_user)
     THEN response' = op(404) /\ UNCHANGED inflight
     ELSE IF parent_id \notin {None, Unset} /\ parent_id # subdept.parent_id
             /\ parent_id = subdept_id
     THEN response' = op(400) /\ UNCHANGED inflight
     ELSE IF parent_id \notin {None, Unset} /\ parent_id # subdept.parent_id
             /\ RecursionOverflow(subdepartments, subdept_id, RecursionLimit)
     THEN response' = op(500) /\ UNCHANGED inflight
     ELSE IF parent_id \notin {None, Unset} /\ parent_id # subdept.parent_id
             /\ is_descendant(subdepartments, subdept_id, parent_id)
     THEN response' = op(400) /\ UNCHANGED inflight
     ELSE /\ inflight' = [inflight EXCEPT ![c] =
                            [op |-> "move", id |-> subdept_id, value |-> parent_id]]
          /\ UNCHANGED response

\* update_subdepartment from setattr to db.commit()
move_commit(c) ==
  /\ UNCHANGED dvars
  /\ inflight[c].op = "move"
  /\ UNCHANGED <<nextSubId, users, tasks, task_assignments, nextAssignId, now, succeeded>>
  /\ LET r == inflight[c]
     IN subdepartments' =
          IF r.value = Unset THEN subdepartments
          ELSE [subdepartments EXCEPT ![r.id].parent_id = r.value]
  /\ inflight' = [inflight EXCEPT ![c] = Idle]
  /\ response' = Resp("update_subdepartment", 200)

\* the hierarchy of one department, built by its admin
MoveCreate ==
  \E p \in {None} \cup DOMAIN subdepartments :
    create_subdepartment(MaxSub, [role |-> "admin", department_id |-> 1], p)

\* every move names a stored subdepartment as the new parent
MoveBegin ==
  \E c \in Clients, id \in DOMAIN subdepartments, p \in DOMAIN subdepartments :
    move_begin(c, [role |-> "admin", department_id |-> 1], id, p)

MoveCommit == \E c \in Clients : move_commit(c)

NextMove ==
  \/ MoveCreate
  \/ MoveBegin
  \/ MoveCommit

SpecMove == InitTree /\ [][NextMove]_vars

\* C30: however two moves of subdepartments of one department overlap, the
\* stored parent_id relation has no cycle.
C30_NoCycleUnderOverlap ==
  \A x \in DOMAIN subdepartments :
    ~IsAncestor(subdepartments, x, x, Cardinality(DOMAIN subdepartments))

====
